---- MODULE Spec2Model ----
(***************************************************************************)
(* Real-time chat layer of the faculty portal: the WebSocket connection    *)
(* handlers, the in-memory room registry, the message table, the           *)
(* create-room and upload-image requests and the hourly cleanup job.       *)
(*                                                                         *)
(* Every handler is an async function: it runs synchronously up to a store *)
(* call, the store executes the call at some later moment, and the handler *)
(* resumes at a still later moment.  A handler in flight is a task with a  *)
(* phase: "db" (store call issued), "resume" (store call executed, result  *)
(* not yet consumed) and "db2" (second store call issued).  Its field hist  *)
(* keeps, for a join, the rows deleted before the frame arrived.            *)
(***************************************************************************)
EXTENDS Integers, Sequences, FiniteSets, TLC

\* ---------------------------------------------------------------- bounds
MaxReqs == 3        \* frames, HTTP requests and cleanup runs in one behaviour
MaxMsgs == 2        \* rows ever inserted into the message table
MaxTasks == 2       \* handlers in flight at the same moment
MaxClock == 2       \* the last hour the clock reaches

\* ------------------------------------------------------- program constants
HistoryWindow == 50        \* limit passed to getMessagesByRoom by join
ImageExpiryHours == 1      \* config.system.imageExpiryHours as configured here

\* ------------------------------------------------------------ input sets
Conns == {"c1", "c2"}
Users == {"alice", "bob"}
UserOf == [c \in Conns |-> IF c = "c1" THEN "alice" ELSE "bob"]
Roles == {"admin", "student"}
RoomIds == {"room1", "room2"}
RoomNames == <<"room1", "room2", "room3", "room4", "room5", "room6", "room7",
              "room8">>
Paths == <<"f1", "f2", "f3">>
Emojis == {"like"}
ReactionKeys == {"heart", "like"}
TieOrders == {"rowid_asc", "rowid_desc"}
NULL == "null"
NoTime == 0 - 1
MsgIds == 1..MaxMsgs
Slots == 1..MaxTasks

VARIABLES
    readyState,   \* ws.readyState of every handle
    userId,       \* ws.userId
    roomId,       \* ws.roomId
    allClients,   \* the global connection set
    rooms,        \* Map<roomId, Set<handle>>
    messages,     \* the message table, in insertion order
    nextId,       \* number of message rows inserted so far (ids are unique)
    roomTable,    \* the room table, in insertion order
    files,        \* image files present under uploads/
    now,          \* the clock, in hours
    tasks,        \* handlers in flight
    sweep,        \* the cleanup job: rows still to process, rows it selected
    sent,         \* frames written to each handle by the last step
    done,         \* the handler that finished in the last step
    httpRes,      \* the HTTP response written by the last step
    newMsgCount,  \* new_message frames each handle received, per message id
    inbox,        \* ids of the new_message frames written to each handle, in order
    reactsDone,   \* react handlers completed per message id and reaction key
    deleted,      \* the rows removed by a completed delete handler
    nreq,         \* requests accepted so far
    notifications,      \* the notification table, in insertion order
    pushSubscriptions,  \* the push_subscriptions table, in insertion order
    vapidKeys,          \* webpush.ts: whether the VAPID keys were configured
    post,               \* the create-notification request in flight
    attempted           \* webpush.sendNotification calls made for the last
                        \* request: whether they failed, the rounds then left

vars == <<readyState, userId, roomId, allClients, rooms, messages, nextId,
          roomTable, files, now, tasks, sweep, sent, done, httpRes,
          newMsgCount, inbox, reactsDone, deleted, nreq, notifications,
          pushSubscriptions, vapidKeys, post, attempted>>

pushVars == <<notifications, pushSubscriptions, vapidKeys, post, attempted>>

\* A request without a session user, and no create-notification request in
\* flight.
NoUser == [id |-> NULL, username |-> NULL, role |-> NULL, departmentName |-> NULL]
NoBody == [content |-> NULL, targetDepartmentName |-> NULL]
NoNotification == [id |-> 0, type |-> NULL, content |-> NULL, postedBy |-> NULL,
                   targetDepartmentName |-> NULL, comments |-> <<>>]
IdlePost == [phase |-> "idle", user |-> NoUser, body |-> NoBody,
             n |-> NoNotification, queue |-> <<>>]

\* Before the first notification request: empty tables, and "Web Push not
\* configured" (initializeWebPush found no keys).
PushOff ==
    /\ notifications = <<>>
    /\ pushSubscriptions = <<>>
    /\ vapidKeys = FALSE
    /\ post = IdlePost
    /\ attempted = {}

\* ------------------------------------------------------------- helpers
EmptyMap == [e \in {} |-> 0]
NoSend == [c \in Conns |-> <<>>]
NoFrame == [type |-> "none"]
IdleTask == [kind |-> "idle", phase |-> "none", conn |-> NULL, f |-> NoFrame,
             res |-> <<>>, hist |-> {}]
NoHttp == [status |-> 0, body |-> <<>>]

Reverse(s) == [i \in 1..Len(s) |-> s[Len(s) + 1 - i]]

Take(s, n) == IF Len(s) <= n THEN s ELSE SubSeq(s, 1, n)

\* `x || null`
OrNull(x) == IF x = "" THEN NULL ELSE x

FreeSlots == {t \in Slots : tasks[t].kind = "idle"}
Busy == {t \in Slots : tasks[t].kind # "idle"}
Slot == CHOOSE t \in FreeSlots : \A u \in FreeSlots : t <= u

Ids(rows) == {rows[i].id : i \in 1..Len(rows)}

\* ------------------------------------------------------ the message store
\* db.insert(messages).values(message).returning(): the row with its
\* server-generated id and creation time.
NewRow(values, id, t) ==
    [id |-> id, roomId |-> values.roomId, sender |-> values.sender,
     content |-> values.content, imageUrl |-> values.imageUrl,
     imageExpiry |-> values.imageExpiry, edited |-> values.edited,
     reactions |-> values.reactions, createdAt |-> t]

createMessage(tbl, values, id, t) == Append(tbl, NewRow(values, id, t))

getMessageAnyRow(tbl, id) == IF tbl = <<>> THEN <<>> ELSE <<tbl[1]>>

getMessage(tbl, id) == SelectSeq(tbl, LAMBDA r : r.id = id)

updateMessage(tbl, id, data) ==
    [i \in 1..Len(tbl) |->
        IF tbl[i].id = id
        THEN [k \in DOMAIN tbl[i] |->
                 IF k \in DOMAIN data THEN data[k] ELSE tbl[i][k]]
        ELSE tbl[i]]

deleteMessageKeeps(tbl, id) == tbl

deleteMessage(tbl, id) == SelectSeq(tbl, LAMBDA r : r.id # id)

\* ORDER BY created_at DESC.  SQL leaves the order of rows with equal
\* created_at open: `tie` says whether such rows come out in insertion order
\* or against it.
Before(a, b, ia, ib, tie) ==
    \/ a.createdAt > b.createdAt
    \/ /\ a.createdAt = b.createdAt
       /\ IF tie = "rowid_asc" THEN ia < ib ELSE ia > ib

RECURSIVE OrderByCreatedDesc(_, _, _)
OrderByCreatedDesc(tbl, idx, tie) ==
    IF idx = {} THEN <<>>
    ELSE LET i == CHOOSE i \in idx :
                    \A j \in idx \ {i} : Before(tbl[i], tbl[j], i, j, tie)
         IN <<tbl[i]>> \o OrderByCreatedDesc(tbl, idx \ {i}, tie)

getMessagesByRoomOldest(tbl, rid, limit, tie) ==
    Reverse(Take(Reverse(OrderByCreatedDesc(tbl,
                    {i \in 1..Len(tbl) : tbl[i].roomId = rid}, tie)), limit))

getMessagesByRoom(tbl, rid, limit, tie) ==
    Take(OrderByCreatedDesc(tbl, {i \in 1..Len(tbl) : tbl[i].roomId = rid}, tie),
         limit)

getExpiredImages(tbl, t) ==
    SelectSeq(tbl, LAMBDA r : r.imageUrl # NULL /\ r.imageExpiry # NoTime
                                /\ r.imageExpiry < t)

IncrementAddsTwo(reactions, key) ==
    [k \in DOMAIN reactions \cup {key} |->
        IF k = key
        THEN (IF key \in DOMAIN reactions THEN reactions[key] ELSE 0) + 2
        ELSE reactions[k]]

IncrementSetsOne(reactions, key) ==
    [k \in DOMAIN reactions \cup {key} |-> IF k = key THEN 1 ELSE reactions[k]]

\* reactions[reactionKey] = (reactions[reactionKey] || 0) + 1
Increment(reactions, key) ==
    [k \in DOMAIN reactions \cup {key} |->
        IF k = key
        THEN (IF key \in DOMAIN reactions THEN reactions[key] ELSE 0) + 1
        ELSE reactions[k]]

\* ------------------------------------------------------ the room registry
BroadcastStopsAtClosed(rid, frame) ==
    [c \in Conns |->
        IF /\ rid \in DOMAIN rooms /\ c \in rooms[rid]
           /\ \A d \in rooms[rid] : readyState[d] = "OPEN"
        THEN <<frame>> ELSE <<>>]

BroadcastEveryRoom(rid, frame) ==
    [c \in Conns |->
        IF (\E r \in DOMAIN rooms : c \in rooms[r]) /\ readyState[c] = "OPEN"
        THEN <<frame>> ELSE <<>>]

BroadcastTwice(rid, frame) ==
    [c \in Conns |->
        IF rid \in DOMAIN rooms /\ c \in rooms[rid] /\ readyState[c] = "OPEN"
        THEN <<frame, frame>> ELSE <<>>]

\* roomClients.forEach(client => { if (client.readyState === OPEN) send })
Broadcast(rid, frame) ==
    [c \in Conns |->
        IF rid \in DOMAIN rooms /\ c \in rooms[rid] /\ readyState[c] = "OPEN"
        THEN <<frame>> ELSE <<>>]

BroadcastJoined(frame) ==
    [c \in Conns |->
        IF (\E r \in DOMAIN rooms : c \in rooms[r]) /\ readyState[c] = "OPEN"
        THEN <<frame>> ELSE <<>>]

\* allClients.forEach(client => { if (client.readyState === OPEN) send })
BroadcastAll(frame) ==
    [c \in Conns |->
        IF c \in allClients /\ readyState[c] = "OPEN" THEN <<frame>> ELSE <<>>]

Finish(t) == tasks' = [tasks EXCEPT ![t] = IdleTask] /\ done' = tasks[t]

\* --------------------------------------------------------- initial state
\* initializeDefaultRooms: the General room and one room per department.
DefaultRooms ==
    <<[id |-> "room1", name |-> "General", type |-> "general",
       departmentName |-> NULL, createdBy |-> "system"],
      [id |-> "room2", name |-> "CS", type |-> "department",
       departmentName |-> "CS", createdBy |-> "system"]>>

Init ==
    /\ readyState = [c \in Conns |-> "NEW"]
    /\ userId = [c \in Conns |-> NULL]
    /\ roomId = [c \in Conns |-> NULL]
    /\ allClients = {}
    /\ rooms = EmptyMap
    /\ messages = <<>>
    /\ nextId = 0
    /\ roomTable = DefaultRooms
    /\ files = {}
    /\ now = 0
    /\ tasks = [t \in Slots |-> IdleTask]
    /\ sweep = [queue |-> <<>>, seen |-> <<>>, pc |-> "idle"]
    /\ sent = NoSend
    /\ done = IdleTask
    /\ httpRes = NoHttp
    /\ newMsgCount = [c \in Conns |-> [m \in {} |-> 0]]
    /\ inbox = [c \in Conns |-> <<>>]
    /\ reactsDone = [m \in {} |-> 0]
    /\ deleted = {}
    /\ nreq = 0
    /\ PushOff

\* What a step leaves alone unless it says otherwise.
Quiet == sent' = NoSend /\ done' = IdleTask /\ httpRes' = NoHttp
ConnSame == UNCHANGED <<readyState, userId, roomId, allClients, rooms>>
StoreSame == UNCHANGED <<messages, nextId, roomTable, files>>
HistSame == UNCHANGED <<newMsgCount, inbox, reactsDone, deleted>>

Start(kind, c, f) ==
    /\ FreeSlots # {}
    /\ tasks' = [tasks EXCEPT ![Slot] =
                    [kind |-> kind, phase |-> "db", conn |-> c, f |-> f,
                     res |-> <<>>,
                     hist |-> IF kind = "join" THEN deleted ELSE {}]]
    /\ nreq' = nreq + 1

\* ------------------------------------------------------------ connections
\* wss.on("connection")
Connect(c) ==
    /\ readyState[c] = "NEW"
    /\ readyState' = [readyState EXCEPT ![c] = "OPEN"]
    /\ allClients' = allClients \cup {c}
    /\ Quiet /\ StoreSame /\ HistSame
    /\ UNCHANGED <<userId, roomId, rooms, now, pushVars, tasks, sweep, nreq>>

\* The closing handshake of a socket has started (readyState CLOSING); its
\* close event has not fired yet, so the handle is still in the sets.
BeginClose(c) ==
    /\ readyState[c] = "OPEN"
    /\ readyState' = [readyState EXCEPT ![c] = "CLOSING"]
    /\ Quiet /\ StoreSame /\ HistSame
    /\ UNCHANGED <<userId, roomId, allClients, rooms, now, pushVars, tasks, sweep, nreq>>

CloseCancelsHandlers(c) ==
    /\ readyState[c] \in {"OPEN", "CLOSING"}
    /\ readyState' = [readyState EXCEPT ![c] = "CLOSED"]
    /\ rooms' = IF roomId[c] # NULL /\ roomId[c] \in DOMAIN rooms
                THEN [rooms EXCEPT ![roomId[c]] = @ \ {c}]
                ELSE rooms
    /\ allClients' = allClients \ {c}
    /\ tasks' = [t \in Slots |-> IF tasks[t].conn = c THEN IdleTask ELSE tasks[t]]
    /\ Quiet /\ StoreSame /\ HistSame
    /\ UNCHANGED <<userId, roomId, now, pushVars, sweep, nreq>>

CloseKeepsSets(c) ==
    /\ readyState[c] \in {"OPEN", "CLOSING"}
    /\ readyState' = [readyState EXCEPT ![c] = "CLOSED"]
    /\ Quiet /\ StoreSame /\ HistSame
    /\ UNCHANGED <<userId, roomId, rooms, allClients, now, pushVars, tasks, sweep, nreq>>

\* ws.on("close")
Close(c) ==
    /\ readyState[c] \in {"OPEN", "CLOSING"}
    /\ readyState' = [readyState EXCEPT ![c] = "CLOSED"]
    /\ rooms' = IF roomId[c] # NULL /\ roomId[c] \in DOMAIN rooms
                THEN [rooms EXCEPT ![roomId[c]] = @ \ {c}]
                ELSE rooms
    /\ allClients' = allClients \ {c}
    /\ Quiet /\ StoreSame /\ HistSame
    /\ UNCHANGED <<userId, roomId, now, pushVars, tasks, sweep, nreq>>

\* --------------------------------------------------------------- join
\* ws.on("message"), type "join", up to the await
WsJoin(c, rid, uid) ==
    /\ readyState[c] = "OPEN"
    /\ userId' = [userId EXCEPT ![c] = uid]
    /\ roomId' = [roomId EXCEPT ![c] = rid]
    /\ rooms' = [r \in DOMAIN rooms \cup {rid} |->
                    IF r = rid
                    THEN (IF rid \in DOMAIN rooms THEN rooms[rid] ELSE {}) \cup {c}
                    ELSE rooms[r]]
    /\ Start("join", c, [type |-> "join", roomId |-> rid, userId |-> uid])
    /\ Quiet /\ StoreSame /\ HistSame
    /\ UNCHANGED <<readyState, allClients, now, pushVars, sweep>>

\* storage.getMessagesByRoom(message.roomId, 50) executes
JoinQuery(t) ==
    /\ tasks[t].kind = "join" /\ tasks[t].phase = "db"
    /\ \E tie \in TieOrders :
         tasks' = [tasks EXCEPT ![t].phase = "resume",
                                ![t].res = getMessagesByRoom(
                                    messages, tasks[t].f.roomId, HistoryWindow, tie)]
    /\ Quiet /\ ConnSame /\ StoreSame /\ HistSame
    /\ UNCHANGED <<now, pushVars, sweep, nreq>>

\* ws.send({type: "history", messages: messages.reverse()})
JoinReply(t) ==
    /\ tasks[t].kind = "join" /\ tasks[t].phase = "resume"
    /\ sent' = [NoSend EXCEPT ![tasks[t].conn] =
                   IF readyState[tasks[t].conn] = "OPEN"
                   THEN <<[type |-> "history", messages |-> Reverse(tasks[t].res)]>>
                   ELSE <<>>]
    /\ Finish(t)
    /\ httpRes' = NoHttp
    /\ ConnSame /\ StoreSame /\ HistSame
    /\ UNCHANGED <<now, pushVars, sweep, nreq>>

\* ------------------------------------------------------------ message
\* ws.on("message"), type "message", up to the await.  formatting and replyTo
\* are stored as sent and are left out of the row.  A frame is JSON, so an
\* imageExpiry it carries is never a Date and the insert rejects (StoreFail).
WsMessage(c, rid, sender, content, img) ==
    /\ readyState[c] = "OPEN"
    /\ Start("message", c,
             [type |-> "message", roomId |-> rid, sender |-> sender,
              content |-> content, imageUrl |-> img])
    /\ Quiet /\ ConnSame /\ StoreSame /\ HistSame
    /\ UNCHANGED <<now, pushVars, sweep>>

MessageValuesFixedSender(f) ==
    [roomId |-> f.roomId, sender |-> "alice", content |-> f.content,
     imageUrl |-> OrNull(f.imageUrl), imageExpiry |-> NoTime,
     edited |-> FALSE, reactions |-> EmptyMap]

MessageValues(f) ==
    [roomId |-> f.roomId, sender |-> f.sender, content |-> f.content,
     imageUrl |-> OrNull(f.imageUrl), imageExpiry |-> NoTime,
     edited |-> FALSE, reactions |-> EmptyMap]

\* storage.createMessage(...) executes
MessagePersist(t) ==
    /\ tasks[t].kind = "message" /\ tasks[t].phase = "db"
    /\ nextId' = nextId + 1
    /\ messages' = createMessage(messages, MessageValues(tasks[t].f), nextId + 1, now)
    /\ tasks' = [tasks EXCEPT ![t].phase = "resume",
                              ![t].res = <<NewRow(MessageValues(tasks[t].f),
                                                  nextId + 1, now)>>]
    /\ Quiet /\ ConnSame /\ HistSame
    /\ UNCHANGED <<roomTable, files, now, pushVars, sweep, nreq>>

Count(c, sends) ==
    [m \in DOMAIN newMsgCount[c]
            \cup {sends[c][i].message.id : i \in 1..Len(sends[c])} |->
        (IF m \in DOMAIN newMsgCount[c] THEN newMsgCount[c][m] ELSE 0)
        + Cardinality({i \in 1..Len(sends[c]) : sends[c][i].message.id = m})]

DeliverInFront(c, sends) ==
    [i \in 1..Len(sends[c]) |-> sends[c][i].message.id] \o inbox[c]

\* client.send(...): the frames written to a socket reach its peer in the
\* order in which they were written
Deliver(c, sends) ==
    inbox[c] \o [i \in 1..Len(sends[c]) |-> sends[c][i].message.id]

\* the broadcast of new_message to rooms.get(message.roomId)
MessageBroadcast(t) ==
    /\ tasks[t].kind = "message" /\ tasks[t].phase = "resume"
    /\ sent' = Broadcast(tasks[t].f.roomId,
                         [type |-> "new_message", message |-> tasks[t].res[1]])
    /\ newMsgCount' = [c \in Conns |-> Count(c, sent')]
    /\ inbox' = [c \in Conns |-> Deliver(c, sent')]
    /\ Finish(t)
    /\ httpRes' = NoHttp
    /\ ConnSame /\ StoreSame
    /\ UNCHANGED <<reactsDone, deleted, now, pushVars, sweep, nreq>>

\* ------------------------------------------------- frames as they arrive
\* A frame as the socket delivers it: json says whether JSON.parse accepts the
\* text, isNull whether it parses to null, the other fields are those of the
\* parsed value.
KnownTypes == {"join", "message", "edit", "delete", "react"}

RawFrame(json, isNull, type) ==
    [json |-> json, isNull |-> isNull, type |-> type, roomId |-> "room1",
     sender |-> "alice", content |-> "hello"]

RawFrames ==
    {RawFrame(FALSE, FALSE, NULL), RawFrame(TRUE, TRUE, NULL),
     RawFrame(TRUE, FALSE, NULL), RawFrame(TRUE, FALSE, "ping"),
     RawFrame(TRUE, FALSE, "message")}

FrameTypeAlwaysMessage(data) == "message"

\* The branch of ws.on("message") a frame takes: JSON.parse throws on text that
\* is not JSON and message.type throws on null, both land in the catch block;
\* a type that no `if` tests for runs through all of them.
FrameType(data) ==
    IF ~data.json \/ data.isNull THEN "catch"
    ELSE IF data.type \in KnownTypes THEN data.type
    ELSE "none"

\* The client has written a frame to the open socket.
FrameArrives(c, data) ==
    /\ readyState[c] = "OPEN"
    /\ FreeSlots # {}
    /\ tasks' = [tasks EXCEPT ![Slot] =
                    [kind |-> "frame", phase |-> "arrived", conn |-> c,
                     f |-> data, res |-> <<>>, hist |-> {}]]
    /\ nreq' = nreq + 1
    /\ Quiet /\ ConnSame /\ StoreSame /\ HistSame
    /\ UNCHANGED <<now, pushVars, sweep>>

\* ws.on("message") runs on the frame, up to its first await or to its end.
\* A socket that has closed meanwhile emits no message event.  Of the known
\* types only "message" arrives this way; the others enter through WsJoin,
\* WsEdit, WsDelete and WsReact.
OnMessage(t) ==
    /\ tasks[t].kind = "frame" /\ tasks[t].phase = "arrived"
    /\ IF readyState[tasks[t].conn] = "OPEN" /\ FrameType(tasks[t].f) = "message"
       THEN /\ tasks' = [tasks EXCEPT ![t] =
                            [kind |-> "message", phase |-> "db",
                             conn |-> tasks[t].conn,
                             f |-> [type |-> "message",
                                    roomId |-> tasks[t].f.roomId,
                                    sender |-> tasks[t].f.sender,
                                    content |-> tasks[t].f.content,
                                    imageUrl |-> NULL],
                             res |-> <<>>, hist |-> {}]]
            /\ done' = IdleTask
       ELSE Finish(t)
    /\ sent' = NoSend /\ httpRes' = NoHttp
    /\ ConnSame /\ StoreSame /\ HistSame
    /\ UNCHANGED <<now, pushVars, sweep, nreq>>

\* ---------------------------------------------------------------- edit
WsEdit(c, mid, content) ==
    /\ readyState[c] = "OPEN"
    /\ Start("edit", c, [type |-> "edit", messageId |-> mid, content |-> content])
    /\ Quiet /\ ConnSame /\ StoreSame /\ HistSame
    /\ UNCHANGED <<now, pushVars, sweep>>

\* storage.updateMessage(messageId, {content, edited: true}) executes (res is
\* the row it returns, which the handler drops)
EditPersist(t) ==
    /\ tasks[t].kind = "edit" /\ tasks[t].phase = "db"
    /\ messages' = updateMessage(messages, tasks[t].f.messageId,
                                 [content |-> tasks[t].f.content, edited |-> TRUE])
    /\ tasks' = [tasks EXCEPT ![t].phase = "resume",
                              ![t].res = getMessage(messages', tasks[t].f.messageId)]
    /\ Quiet /\ ConnSame /\ HistSame
    /\ UNCHANGED <<nextId, roomTable, files, now, pushVars, sweep, nreq>>

\* the broadcast of message_edited to rooms.get(ws.roomId)
EditBroadcast(t) ==
    /\ tasks[t].kind = "edit" /\ tasks[t].phase = "resume"
    /\ sent' = Broadcast(roomId[tasks[t].conn],
                         [type |-> "message_edited",
                          messageId |-> tasks[t].f.messageId,
                          content |-> tasks[t].f.content])
    /\ Finish(t)
    /\ httpRes' = NoHttp
    /\ ConnSame /\ StoreSame /\ HistSame
    /\ UNCHANGED <<now, pushVars, sweep, nreq>>

\* -------------------------------------------------------------- delete
WsDelete(c, mid) ==
    /\ readyState[c] = "OPEN"
    /\ Start("delete", c, [type |-> "delete", messageId |-> mid])
    /\ Quiet /\ ConnSame /\ StoreSame /\ HistSame
    /\ UNCHANGED <<now, pushVars, sweep>>

\* storage.deleteMessage(messageId) executes (res keeps the row it removed,
\* for `deleted` only: the handler gets nothing back)
DeletePersist(t) ==
    /\ tasks[t].kind = "delete" /\ tasks[t].phase = "db"
    /\ messages' = deleteMessage(messages, tasks[t].f.messageId)
    /\ tasks' = [tasks EXCEPT ![t].phase = "resume",
                              ![t].res = getMessage(messages, tasks[t].f.messageId)]
    /\ Quiet /\ ConnSame /\ HistSame
    /\ UNCHANGED <<nextId, roomTable, files, now, pushVars, sweep, nreq>>

\* the broadcast of message_deleted to rooms.get(ws.roomId)
DeleteBroadcast(t) ==
    /\ tasks[t].kind = "delete" /\ tasks[t].phase = "resume"
    /\ sent' = Broadcast(roomId[tasks[t].conn],
                         [type |-> "message_deleted",
                          messageId |-> tasks[t].f.messageId])
    /\ deleted' = deleted \cup {tasks[t].res[i] : i \in 1..Len(tasks[t].res)}
    /\ Finish(t)
    /\ httpRes' = NoHttp
    /\ ConnSame /\ StoreSame
    /\ UNCHANGED <<newMsgCount, inbox, reactsDone, now, pushVars, sweep, nreq>>

\* --------------------------------------------------------------- react
WsReact(c, mid, emoji) ==
    /\ readyState[c] = "OPEN"
    /\ Start("react", c, [type |-> "react", messageId |-> mid, emoji |-> emoji])
    /\ Quiet /\ ConnSame /\ StoreSame /\ HistSame
    /\ UNCHANGED <<now, pushVars, sweep>>

\* message.emoji || "heart"
ReactionKey(f) == IF f.emoji = NULL \/ f.emoji = "" THEN "heart" ELSE f.emoji

\* storage.getMessage(messageId) executes; on a row the handler goes on to
\* increment its copy of the map and to call updateMessage, on none it ends.
ReactRead(t) ==
    /\ tasks[t].kind = "react" /\ tasks[t].phase = "db"
    /\ LET msg == getMessage(messages, tasks[t].f.messageId)
       IN IF msg = <<>>
          THEN Finish(t)
          ELSE /\ tasks' = [tasks EXCEPT
                              ![t].phase = "db2",
                              ![t].res = Increment(msg[1].reactions,
                                                   ReactionKey(tasks[t].f))]
               /\ done' = IdleTask
    /\ sent' = NoSend /\ httpRes' = NoHttp
    /\ ConnSame /\ StoreSame /\ HistSame
    /\ UNCHANGED <<now, pushVars, sweep, nreq>>

\* storage.updateMessage(messageId, {reactions}) executes
ReactWrite(t) ==
    /\ tasks[t].kind = "react" /\ tasks[t].phase = "db2"
    /\ messages' = updateMessage(messages, tasks[t].f.messageId,
                                 [reactions |-> tasks[t].res])
    /\ tasks' = [tasks EXCEPT ![t].phase = "resume"]
    /\ Quiet /\ ConnSame /\ HistSame
    /\ UNCHANGED <<nextId, roomTable, files, now, pushVars, sweep, nreq>>

Bump(fn, key) ==
    [k \in DOMAIN fn \cup {key} |->
        IF k = key THEN (IF key \in DOMAIN fn THEN fn[key] ELSE 0) + 1 ELSE fn[k]]

\* the broadcast of message_reacted to rooms.get(ws.roomId)
ReactBroadcast(t) ==
    /\ tasks[t].kind = "react" /\ tasks[t].phase = "resume"
    /\ sent' = Broadcast(roomId[tasks[t].conn],
                         [type |-> "message_reacted",
                          messageId |-> tasks[t].f.messageId,
                          reactions |-> tasks[t].res])
    /\ reactsDone' = Bump(reactsDone,
                          <<tasks[t].f.messageId, ReactionKey(tasks[t].f)>>)
    /\ Finish(t)
    /\ httpRes' = NoHttp
    /\ ConnSame /\ StoreSame
    /\ UNCHANGED <<newMsgCount, inbox, deleted, now, pushVars, sweep, nreq>>

\* ------------------------------------------------- POST /api/chat/upload-image
FreePath == CHOOSE i \in 1..Len(Paths) :
                /\ Paths[i] \notin files
                /\ \A j \in 1..(i - 1) : Paths[j] \in files

\* multer has stored the file; the handler builds the row and awaits the insert
HttpUpload(user, rid, caption) ==
    /\ \E i \in 1..Len(Paths) : Paths[i] \notin files
    /\ files' = files \cup {Paths[FreePath]}
    /\ Start("upload", NULL,
             [type |-> "upload", roomId |-> rid, sender |-> user,
              content |-> IF caption = "" THEN "[Image]" ELSE caption,
              imageUrl |-> Paths[FreePath],
              imageExpiry |-> now + ImageExpiryHours])
    /\ Quiet /\ ConnSame /\ HistSame
    /\ UNCHANGED <<messages, nextId, roomTable, now, pushVars, sweep>>

UploadValues(f) ==
    [roomId |-> f.roomId, sender |-> f.sender, content |-> f.content,
     imageUrl |-> f.imageUrl, imageExpiry |-> f.imageExpiry,
     edited |-> FALSE, reactions |-> EmptyMap]

UploadPersist(t) ==
    /\ tasks[t].kind = "upload" /\ tasks[t].phase = "db"
    /\ nextId' = nextId + 1
    /\ messages' = createMessage(messages, UploadValues(tasks[t].f), nextId + 1, now)
    /\ tasks' = [tasks EXCEPT ![t].phase = "resume",
                              ![t].res = <<NewRow(UploadValues(tasks[t].f),
                                                  nextId + 1, now)>>]
    /\ Quiet /\ ConnSame /\ HistSame
    /\ UNCHANGED <<roomTable, files, now, pushVars, sweep, nreq>>

UploadBroadcast(t) ==
    /\ tasks[t].kind = "upload" /\ tasks[t].phase = "resume"
    /\ sent' = Broadcast(tasks[t].f.roomId,
                         [type |-> "new_message", message |-> tasks[t].res[1]])
    /\ newMsgCount' = [c \in Conns |-> Count(c, sent')]
    /\ inbox' = [c \in Conns |-> Deliver(c, sent')]
    /\ httpRes' = [status |-> 200, body |-> tasks[t].res]
    /\ Finish(t)
    /\ ConnSame /\ StoreSame
    /\ UNCHANGED <<reactsDone, deleted, now, pushVars, sweep, nreq>>

\* ------------------------------------------------------- POST /api/rooms
HttpCreateRoom(role, user, name, type, dept) ==
    /\ Len(roomTable) < Len(RoomNames)
    /\ IF role # "admin"
       THEN /\ httpRes' = [status |-> 403, body |-> <<>>]
            /\ nreq' = nreq + 1
            /\ sent' = NoSend /\ done' = IdleTask
            /\ UNCHANGED tasks
       ELSE /\ Start("create_room", NULL,
                     [type |-> "create_room", name |-> name,
                      roomType |-> IF type = NULL THEN "custom" ELSE type,
                      departmentName |-> dept, createdBy |-> user,
                      seq |-> nreq + 1])
            /\ Quiet
    /\ ConnSame /\ StoreSame /\ HistSame
    /\ UNCHANGED <<now, pushVars, sweep>>

\* storage.createRoom(...) executes and the handler calls createActivityLog
RoomPersist(t) ==
    /\ tasks[t].kind = "create_room" /\ tasks[t].phase = "db"
    /\ LET room == [id |-> RoomNames[Len(DefaultRooms) + tasks[t].f.seq],
                    name |-> tasks[t].f.name,
                    type |-> tasks[t].f.roomType,
                    departmentName |-> tasks[t].f.departmentName,
                    createdBy |-> tasks[t].f.createdBy]
       IN /\ roomTable' = Append(roomTable, room)
          /\ tasks' = [tasks EXCEPT ![t].phase = "db2", ![t].res = <<room>>]
    /\ Quiet /\ ConnSame /\ HistSame
    /\ UNCHANGED <<messages, nextId, files, now, pushVars, sweep, nreq>>

\* storage.createActivityLog(...) has executed: the new_room frame goes to
\* allClients and the room is the response
RoomBroadcast(t) ==
    /\ tasks[t].kind = "create_room" /\ tasks[t].phase = "db2"
    /\ sent' = BroadcastAll([type |-> "new_room", room |-> tasks[t].res[1]])
    /\ httpRes' = [status |-> 200, body |-> tasks[t].res]
    /\ Finish(t)
    /\ ConnSame /\ StoreSame /\ HistSame
    /\ UNCHANGED <<now, pushVars, sweep, nreq>>

\* ----------------------------------------------- DELETE /api/rooms/:id
getRoom(tbl, id) == SelectSeq(tbl, LAMBDA r : r.id = id)

deleteRoom(tbl, id) == SelectSeq(tbl, LAMBDA r : r.id # id)

HttpDeleteRoom(role, id) ==
    /\ IF role # "admin"
       THEN /\ httpRes' = [status |-> 403, body |-> <<>>]
            /\ nreq' = nreq + 1
            /\ sent' = NoSend /\ done' = IdleTask
            /\ UNCHANGED tasks
       ELSE /\ Start("delete_room", NULL,
                     [type |-> "delete_room", roomId |-> id, role |-> role])
            /\ Quiet
    /\ ConnSame /\ StoreSame /\ HistSame
    /\ UNCHANGED <<now, pushVars, sweep>>

RoomLookupNoCheck(t) ==
    /\ tasks[t].kind = "delete_room" /\ tasks[t].phase = "db"
    /\ tasks' = [tasks EXCEPT ![t].phase = "db2"]
    /\ Quiet /\ ConnSame /\ StoreSame /\ HistSame
    /\ UNCHANGED <<now, pushVars, sweep, nreq>>

\* storage.getRoom(id) has executed: a general or department room is
\* refused with 400, otherwise storage.deleteRoom(id) is called.
RoomLookup(t) ==
    /\ tasks[t].kind = "delete_room" /\ tasks[t].phase = "db"
    /\ LET room == getRoom(roomTable, tasks[t].f.roomId)
       IN IF room # <<>> /\ room[1].type \in {"general", "department"}
          THEN /\ httpRes' = [status |-> 400, body |-> <<>>]
               /\ sent' = NoSend
               /\ Finish(t)
          ELSE /\ tasks' = [tasks EXCEPT ![t].phase = "db2"]
               /\ Quiet
    /\ ConnSame /\ StoreSame /\ HistSame
    /\ UNCHANGED <<now, pushVars, sweep, nreq>>

\* storage.deleteRoom(id) executes, the activity log is written and the
\* handler answers.
RoomRemove(t) ==
    /\ tasks[t].kind = "delete_room" /\ tasks[t].phase = "db2"
    /\ roomTable' = deleteRoom(roomTable, tasks[t].f.roomId)
    /\ httpRes' = [status |-> 200, body |-> <<>>]
    /\ sent' = NoSend
    /\ Finish(t)
    /\ ConnSame /\ HistSame
    /\ UNCHANGED <<messages, nextId, files, now, pushVars, sweep, nreq>>

\* ------------------------------------------------------ server restart
ConfigDepartments == <<"CS">>

\* initializeDefaultRooms: one read of the room table, then the General
\* room and the room of every configured department are created if the read
\* did not show them.
initializeDefaultRooms(tbl) ==
    LET exists(name, type) ==
            \E i \in 1..Len(tbl) : tbl[i].name = name /\ tbl[i].type = type
        withGeneral == IF exists("General", "general") THEN tbl
                       ELSE Append(tbl, DefaultRooms[1])
    IN IF exists(ConfigDepartments[1], "department") THEN withGeneral
       ELSE Append(withGeneral, DefaultRooms[2])

\* The server process is started again: the sockets, the registry and the
\* handlers in flight are gone, the store is as it was, and the
\* initialization runs before the server listens.
Reinitialize ==
    /\ roomTable' = initializeDefaultRooms(roomTable)
    /\ readyState' = [c \in Conns |-> "NEW"]
    /\ userId' = [c \in Conns |-> NULL]
    /\ roomId' = [c \in Conns |-> NULL]
    /\ allClients' = {}
    /\ rooms' = EmptyMap
    /\ tasks' = [t \in Slots |-> IdleTask]
    /\ sweep' = [queue |-> <<>>, seen |-> <<>>, pc |-> "idle"]
    /\ newMsgCount' = [c \in Conns |-> [m \in {} |-> 0]]
    /\ inbox' = [c \in Conns |-> <<>>]
    /\ post' = IdlePost
    /\ nreq' = nreq + 1
    /\ Quiet
    /\ UNCHANGED <<messages, nextId, files, now, reactsDone, deleted,
                   notifications, pushSubscriptions, vapidKeys, attempted>>

\* ---------------------------------------------------------- store failure
StoreFailClosesSocket(t) ==
    /\ tasks[t].phase \in {"db", "db2"}
    /\ tasks' = [tasks EXCEPT ![t] = IdleTask]
    /\ done' = [tasks[t] EXCEPT !.phase = "failed"]
    /\ httpRes' = NoHttp
    /\ sent' = NoSend
    /\ readyState' = [c \in Conns |->
                        IF c = tasks[t].conn THEN "CLOSED" ELSE readyState[c]]
    /\ StoreSame /\ HistSame
    /\ UNCHANGED <<userId, roomId, allClients, rooms, now, pushVars, sweep, nreq>>

\* The pending store call of a handler rejects: the catch block logs it, and an
\* HTTP handler answers 500.  Nothing is broadcast.
StoreFail(t) ==
    /\ tasks[t].phase \in {"db", "db2"}
    /\ tasks' = [tasks EXCEPT ![t] = IdleTask]
    /\ done' = [tasks[t] EXCEPT !.phase = "failed"]
    /\ httpRes' = IF tasks[t].kind \in {"upload", "create_room", "delete_room",
                                        "comment"}
                  THEN [status |-> 500, body |-> <<>>] ELSE NoHttp
    /\ sent' = NoSend
    /\ ConnSame /\ StoreSame /\ HistSame
    /\ UNCHANGED <<now, pushVars, sweep, nreq>>

\* ------------------------------------------------------ the cleanup job
\* cron "0 * * * *": storage.getExpiredImages() executes
SweepQuery ==
    /\ sweep.pc = "idle"
    /\ LET rows == getExpiredImages(messages, now)
       IN sweep' = [queue |-> rows, seen |-> rows, pc |-> "loop"]
    /\ nreq' = nreq + 1
    /\ Quiet /\ ConnSame /\ StoreSame /\ HistSame
    /\ UNCHANGED <<now, pushVars, tasks>>

\* one turn of the loop: fs.unlink(msg.imageUrl), then updateMessage clears the
\* two image fields; when unlink throws (no such file, no permission) the
\* update is skipped, the catch block logs it and the loop goes on
SweepItem(ok) ==
    /\ sweep.pc = "loop" /\ sweep.queue # <<>>
    /\ LET msg == Head(sweep.queue)
       IN IF ok /\ msg.imageUrl \in files
          THEN /\ files' = files \ {msg.imageUrl}
               /\ messages' = updateMessage(messages, msg.id,
                                  [imageUrl |-> NULL, imageExpiry |-> NoTime])
          ELSE UNCHANGED <<files, messages>>
    /\ sweep' = [sweep EXCEPT !.queue = Tail(@)]
    /\ Quiet /\ ConnSame /\ HistSame
    /\ UNCHANGED <<nextId, roomTable, now, pushVars, tasks, nreq>>

\* the loop over expiredImages has ended (the document part of the job is not
\* modelled)
SweepEnd ==
    /\ sweep.pc = "loop" /\ sweep.queue = <<>>
    /\ sweep' = [sweep EXCEPT !.pc = "idle"]
    /\ done' = [IdleTask EXCEPT !.kind = "sweep"]
    /\ sent' = NoSend /\ httpRes' = NoHttp
    /\ ConnSame /\ StoreSame /\ HistSame
    /\ UNCHANGED <<now, pushVars, tasks, nreq>>

\* An hour passes.  Store calls take far less: no handler is in flight.
Tick ==
    /\ Busy = {} /\ sweep.pc = "idle"
    /\ now' = now + 1
    /\ Quiet /\ ConnSame /\ StoreSame /\ HistSame
    /\ UNCHANGED <<tasks, sweep, nreq, pushVars>>

\* ---------------------------------------------------------- notifications
\* The accounts of the user table.  The id is generated by the store, the
\* username is free text chosen at registration: two of the accounts here
\* carry as username the id of the other one.
Departments == {"CS", "Math"}
AllDepartments == "All Departments"
Elevated == {"admin", "faculty-governor"}
Account(id, username, role, dept) ==
    [id |-> id, username |-> username, role |-> role, departmentName |-> dept]
Accounts ==
    {Account("u1", "gov", "department-governor", "CS"),
     Account("u2", "u3", "student", "CS"),
     Account("u3", "u2", "student", "Math"),
     Account("u4", "dean", "faculty-governor", AllDepartments),
     Account("u5", "root", "admin", AllDepartments)}
Endpoints == {"e1", "e2", "e3"}
\* What webpush.sendNotification does with one endpoint: it resolves, it
\* rejects with status 410 (and the pruning store call resolves or rejects),
\* or it rejects with another error.
Outcomes == {"sent", "gone", "gone, delete rejected", "error"}
StoreError == [error |-> "store call rejected"]
NotificationBodies ==
    [content : {"", "hi"}, targetDepartmentName : {NULL, "", "CS", "Math"}]

getUser(id) == {a \in Accounts : a.id = id}

createPushSubscription(tbl, subscription) == Append(tbl, subscription)

getPushSubscriptionsByUser(tbl, key) == SelectSeq(tbl, LAMBDA r : r.userId = key)

deletePushSubscription(tbl, endpoint) ==
    SelectSeq(tbl, LAMBDA r : r.endpoint # endpoint)

\* The audience of a notification: everyone if it is general, the members
\* of the target department and the elevated roles otherwise.
Audience(target) ==
    IF target = NULL THEN Accounts
    ELSE {a \in Accounts : a.departmentName = target \/ a.role \in Elevated}

\* The subscription rows of the audience.
getPushSubscribersForDepartment(tbl, target) ==
    SelectSeq(tbl, LAMBDA r : \E a \in Audience(target) : a.id = r.userId)

\* type and target of the notification a request creates.
NotificationTarget(user, body) ==
    IF user.role = "department-governor"
    THEN (IF body.targetDepartmentName = NULL THEN NULL
          ELSE user.departmentName)
    ELSE IF body.targetDepartmentName \notin {NULL, ""}
         THEN body.targetDepartmentName
         ELSE NULL

NotificationValues(user, body) ==
    LET target == NotificationTarget(user, body)
    IN [type |-> IF target = NULL THEN "general" ELSE "department",
        content |-> body.content, postedBy |-> user.username,
        targetDepartmentName |-> target]

createNotification(tbl, values) ==
    Append(tbl, [id |-> Len(tbl) + 1, type |-> values.type,
                 content |-> values.content, postedBy |-> values.postedBy,
                 targetDepartmentName |-> values.targetDepartmentName,
                 comments |-> <<>>])

PushQuiet == sent' = NoSend /\ done' = IdleTask
ChatSame == ConnSame /\ StoreSame /\ HistSame /\ UNCHANGED <<now, tasks, sweep>>

\* POST /api/push/subscribe: one insert under the id of the session user.
\* The endpoint column is unique: a second row for an endpoint is rejected.
HttpSubscribe(user, endpoint) ==
    /\ IF user = NoUser
       THEN /\ httpRes' = [status |-> 401, body |-> <<>>]
            /\ UNCHANGED pushSubscriptions
       ELSE IF \E i \in 1..Len(pushSubscriptions) :
                   pushSubscriptions[i].endpoint = endpoint
       THEN /\ httpRes' = [status |-> 500, body |-> <<StoreError>>]
            /\ UNCHANGED pushSubscriptions
       ELSE /\ pushSubscriptions' = createPushSubscription(pushSubscriptions,
                     [userId |-> user.id, endpoint |-> endpoint])
            /\ httpRes' = [status |-> 200, body |-> <<>>]
    /\ nreq' = nreq + 1
    /\ PushQuiet /\ ChatSame
    /\ UNCHANGED <<notifications, vapidKeys, post, attempted>>

\* POST /api/notifications up to its first store call.
HttpPostNotification(user, body) ==
    /\ post.phase = "idle"
    /\ IF user = NoUser
       THEN httpRes' = [status |-> 401, body |-> <<>>] /\ UNCHANGED <<post, attempted>>
       ELSE IF user.role \notin {"faculty-governor", "department-governor", "admin"}
       THEN httpRes' = [status |-> 403, body |-> <<>>] /\ UNCHANGED <<post, attempted>>
       ELSE IF body.content = ""
       THEN httpRes' = [status |-> 400, body |-> <<>>] /\ UNCHANGED <<post, attempted>>
       ELSE /\ post' = [IdlePost EXCEPT !.phase = "create", !.user = user,
                                        !.body = body]
            /\ attempted' = {}
            /\ httpRes' = NoHttp
    /\ nreq' = nreq + 1
    /\ PushQuiet /\ ChatSame
    /\ UNCHANGED <<notifications, pushSubscriptions, vapidKeys>>

\* storage.createNotification executes.
NotificationPersist ==
    /\ post.phase = "create"
    /\ notifications' = createNotification(notifications,
                            NotificationValues(post.user, post.body))
    /\ post' = [post EXCEPT !.phase = "log",
                            !.n = notifications'[Len(notifications')]]
    /\ httpRes' = NoHttp /\ PushQuiet /\ ChatSame
    /\ UNCHANGED <<nreq, pushSubscriptions, vapidKeys, attempted>>

\* storage.createActivityLog executes (the log table is not modelled).
NotificationLog ==
    /\ post.phase = "log"
    /\ post' = [post EXCEPT !.phase = "lookup"]
    /\ httpRes' = NoHttp /\ PushQuiet /\ ChatSame
    /\ UNCHANGED <<nreq, notifications, pushSubscriptions, vapidKeys, attempted>>

\* storage.getPushSubscribersForDepartment(target) executes.
NotificationLookup ==
    /\ post.phase = "lookup"
    /\ post' = [post EXCEPT !.phase = "push",
                   !.queue = getPushSubscribersForDepartment(pushSubscriptions,
                                 post.n.targetDepartmentName)]
    /\ httpRes' = NoHttp /\ PushQuiet /\ ChatSame
    /\ UNCHANGED <<nreq, notifications, pushSubscriptions, vapidKeys, attempted>>

\* sendPushNotification(key, ...): nothing without VAPID keys; otherwise the
\* rows stored under `key` are read and a delivery is started for each of
\* them inside Promise.all, each in its own try/catch.  A 410 deletes the
\* row; every rejection, the one of the delete included, is swallowed.
\* `o` gives the outcome at each endpoint.
Failed(o, endpoint) == o[endpoint] # "sent"

sendPushNotificationStopsAtFailure(key, tbl, o) ==
    LET found == IF vapidKeys THEN getPushSubscriptionsByUser(tbl, key) ELSE <<>>
        tried == {i \in 1..Len(found) :
                     \A j \in 1..(i - 1) : ~Failed(o, found[j].endpoint)}
        gone == {found[i].endpoint : i \in {j \in tried : o[found[j].endpoint] = "gone"}}
    IN [attempts |-> {[key |-> key, endpoint |-> found[i].endpoint,
                       outcome |-> o[found[i].endpoint]] : i \in tried},
        table |-> SelectSeq(tbl, LAMBDA r : r.endpoint \notin gone)]

sendPushNotification(key, tbl, o) ==
    LET found == IF vapidKeys THEN getPushSubscriptionsByUser(tbl, key) ELSE <<>>
        gone == {found[i].endpoint :
                    i \in {j \in 1..Len(found) : o[found[j].endpoint] = "gone"}}
    IN [attempts |-> {[key |-> key, endpoint |-> found[i].endpoint,
                       outcome |-> o[found[i].endpoint]] : i \in 1..Len(found)},
        table |-> SelectSeq(tbl, LAMBDA r : r.endpoint \notin gone)]

\* One round of the loop over the subscribers: storage.getUser, then the
\* push to that user unless it is the sender.  The key handed to
\* sendPushNotification is the username.
NotificationPush(o) ==
    /\ post.phase = "push" /\ post.queue # <<>>
    /\ LET sub == Head(post.queue)
           user == getUser(sub.userId)
           to == {u \in user : u.username # post.user.username}
       IN IF to = {}
          THEN UNCHANGED <<pushSubscriptions, attempted>>
          ELSE LET r == sendPushNotification((CHOOSE u \in to : TRUE).username,
                                             pushSubscriptions, o)
               IN /\ pushSubscriptions' = r.table
                  /\ attempted' = attempted \cup
                        {[key |-> a.key, endpoint |-> a.endpoint,
                          failed |-> a.outcome # "sent",
                          left |-> Len(post.queue)] : a \in r.attempts}
    /\ post' = [post EXCEPT !.queue = Tail(@)]
    /\ httpRes' = NoHttp /\ PushQuiet /\ ChatSame
    /\ UNCHANGED <<nreq, notifications, vapidKeys>>

\* After the loop: generateAdminBackup (a failure is caught and logged),
\* then res.json(notification).
NotificationRespond ==
    /\ post.phase = "push" /\ post.queue = <<>>
    /\ httpRes' = [status |-> 200, body |-> <<post.n>>]
    /\ post' = IdlePost
    /\ PushQuiet /\ ChatSame
    /\ UNCHANGED <<nreq, notifications, pushSubscriptions, vapidKeys, attempted>>

\* An awaited store call of the route rejects: createNotification,
\* createActivityLog, getPushSubscribersForDepartment or getUser.  The outer
\* catch answers 500 with the error's message.
NotificationStoreFail ==
    /\ \/ post.phase \in {"create", "log", "lookup"}
       \/ post.phase = "push" /\ post.queue # <<>>
    /\ httpRes' = [status |-> 500, body |-> <<StoreError>>]
    /\ post' = IdlePost
    /\ PushQuiet /\ ChatSame
    /\ UNCHANGED <<nreq, notifications, pushSubscriptions, vapidKeys, attempted>>

\* The filter of GET /api/notifications.
VisibleToAll(n, user) == TRUE

Visible(n, user) ==
    \/ n.targetDepartmentName = NULL
    \/ user.role = "admin" \/ user.role = "faculty-governor"
    \/ n.targetDepartmentName = user.departmentName

\* ORDER BY created_at DESC: the newest row first.
getAllNotifications(tbl) == Reverse(tbl)

\* GET /api/notifications.
HttpGetNotifications(user) ==
    /\ IF user = NoUser
       THEN httpRes' = [status |-> 401, body |-> <<>>]
       ELSE httpRes' = [status |-> 200,
                        body |-> SelectSeq(getAllNotifications(notifications),
                                           LAMBDA n : Visible(n, user))]
    /\ nreq' = nreq + 1
    /\ PushQuiet /\ ChatSame
    /\ UNCHANGED pushVars

\* The bodies of a PATCH: any subset of the columns, here the two that
\* say whom a notification is for.
NotificationPatches ==
    {[k \in {"targetDepartmentName"} |-> d] : d \in Departments \cup {NULL, ""}}
        \cup {[k \in {"type"} |-> t] : t \in {"general", "department"}}

updateNotification(tbl, id, data) ==
    [i \in 1..Len(tbl) |->
        IF tbl[i].id = id
        THEN [k \in DOMAIN tbl[i] |->
                 IF k \in DOMAIN data THEN data[k] ELSE tbl[i][k]]
        ELSE tbl[i]]

\* PATCH /api/notifications/:id: any authenticated user, any columns.
HttpPatchNotification(user, id, data) ==
    /\ IF user = NoUser
       THEN httpRes' = [status |-> 401, body |-> <<>>] /\ UNCHANGED notifications
       ELSE /\ notifications' = updateNotification(notifications, id, data)
            /\ httpRes' = [status |-> 200,
                           body |-> SelectSeq(notifications', LAMBDA n : n.id = id)]
    /\ nreq' = nreq + 1
    /\ PushQuiet /\ ChatSame
    /\ UNCHANGED <<pushSubscriptions, vapidKeys, post, attempted>>

\* ------------------------------------ POST /api/notifications/:id/comment
\* content.trim() on the bodies sent here.
Trim(content) == IF content = " " THEN "" ELSE content

getNotification(tbl, id) == SelectSeq(tbl, LAMBDA n : n.id = id)

\* The checks before the first store call, then storage.getNotification is
\* awaited.
HttpComment(user, id, content) ==
    /\ IF user = NoUser
       THEN /\ httpRes' = [status |-> 401, body |-> <<>>]
            /\ nreq' = nreq + 1
            /\ sent' = NoSend /\ done' = IdleTask
            /\ UNCHANGED tasks
       ELSE IF content = "" \/ Trim(content) = ""
       THEN /\ httpRes' = [status |-> 400, body |-> <<>>]
            /\ nreq' = nreq + 1
            /\ sent' = NoSend /\ done' = IdleTask
            /\ UNCHANGED tasks
       ELSE /\ Start("comment", NULL,
                     [type |-> "comment", id |-> id, author |-> user.username,
                      content |-> Trim(content)])
            /\ Quiet
    /\ ConnSame /\ StoreSame /\ HistSame
    /\ UNCHANGED <<now, pushVars, sweep>>

\* storage.getNotification(id) has executed: 404 on no row; otherwise the new
\* comment is pushed onto the list that was read and updateNotification is
\* called with that list.
CommentRead(t) ==
    /\ tasks[t].kind = "comment" /\ tasks[t].phase = "db"
    /\ LET notification == getNotification(notifications, tasks[t].f.id)
       IN IF notification = <<>>
          THEN /\ httpRes' = [status |-> 404, body |-> <<>>]
               /\ sent' = NoSend
               /\ Finish(t)
          ELSE /\ tasks' = [tasks EXCEPT
                              ![t].phase = "db2",
                              ![t].res = Append(notification[1].comments,
                                                [id |-> now,
                                                 author |-> tasks[t].f.author,
                                                 content |-> tasks[t].f.content])]
               /\ Quiet
    /\ ConnSame /\ StoreSame /\ HistSame
    /\ UNCHANGED <<now, pushVars, sweep, nreq>>

\* storage.updateNotification(id, {comments}) executes.
CommentWrite(t) ==
    /\ tasks[t].kind = "comment" /\ tasks[t].phase = "db2"
    /\ notifications' = updateNotification(notifications, tasks[t].f.id,
                                           [comments |-> tasks[t].res])
    /\ tasks' = [tasks EXCEPT
                    ![t].phase = "resume",
                    ![t].res = getNotification(notifications', tasks[t].f.id)]
    /\ Quiet /\ ConnSame /\ StoreSame /\ HistSame
    /\ UNCHANGED <<now, sweep, nreq, pushSubscriptions, vapidKeys, post, attempted>>

\* res.json(updated)
CommentRespond(t) ==
    /\ tasks[t].kind = "comment" /\ tasks[t].phase = "resume"
    /\ httpRes' = [status |-> 200, body |-> tasks[t].res]
    /\ sent' = NoSend
    /\ Finish(t)
    /\ ConnSame /\ StoreSame /\ HistSame
    /\ UNCHANGED <<now, pushVars, sweep, nreq>>

\* ------------------------------------------------------- specifications
Connections == \E c \in Conns : Connect(c) \/ Close(c)

Joins == \E c \in Conns, r \in RoomIds : WsJoin(c, r, UserOf[c])

Sends == \E c \in Conns, r \in RoomIds, u \in Users : WsMessage(c, r, u, "hello", NULL)

Mutations ==
    \/ \E c \in Conns, m \in MsgIds : WsEdit(c, m, "bye")
    \/ \E c \in Conns, m \in MsgIds : WsDelete(c, m)
    \/ \E c \in Conns, m \in MsgIds, e \in Emojis \cup {NULL} : WsReact(c, m, e)

Uploads == \E u \in Users, r \in RoomIds : HttpUpload(u, r, "")

CreateRooms == \E role \in Roles : HttpCreateRoom(role, "alice", "Lab", NULL, NULL)

JoinSteps == \E t \in Slots : JoinQuery(t) \/ JoinReply(t)

SendSteps ==
    \E t \in Slots : (nextId < MaxMsgs /\ MessagePersist(t)) \/ MessageBroadcast(t)

MutationSteps ==
    \/ \E t \in Slots : EditPersist(t) \/ EditBroadcast(t)
    \/ \E t \in Slots : DeletePersist(t) \/ DeleteBroadcast(t)
    \/ \E t \in Slots : ReactRead(t) \/ ReactWrite(t) \/ ReactBroadcast(t)

UploadSteps ==
    \E t \in Slots : (nextId < MaxMsgs /\ UploadPersist(t)) \/ UploadBroadcast(t)

RoomSteps == \E t \in Slots : RoomPersist(t) \/ RoomBroadcast(t)

RoomTypes == {"general", "department", "custom"}

CreateAnyRooms ==
    \E role \in Roles, name \in {"Lab", "General"}, type \in RoomTypes \cup {NULL} :
        HttpCreateRoom(role, "alice", name, type, NULL)

\* A room id is generated by the store at insertion: a request can name the
\* id of a stored room, or a string that is no room's id.
NoRoomId == RoomNames[Len(RoomNames)]

DeleteRooms ==
    \E role \in Roles, id \in {roomTable[i].id : i \in 1..Len(roomTable)} \cup {NoRoomId} :
        HttpDeleteRoom(role, id)

DeleteRoomSteps == \E t \in Slots : RoomLookup(t) \/ RoomRemove(t)

SweepSteps == (\E ok \in BOOLEAN : SweepItem(ok)) \/ SweepEnd

Fails == \E t \in Slots : StoreFail(t)

Sessions == Accounts \cup {NoUser}
NotifIds == 1..MaxReqs

Subscribes == \E u \in Sessions, e \in Endpoints : HttpSubscribe(u, e)

PostNotifications ==
    \E u \in Sessions, b \in NotificationBodies : HttpPostNotification(u, b)

GetNotifications == \E u \in Sessions : HttpGetNotifications(u)

PatchNotifications ==
    \E u \in Sessions, id \in NotifIds, d \in NotificationPatches :
        HttpPatchNotification(u, id, d)

\* The endpoints a delivery can be started for.
StoredEndpoints == {pushSubscriptions[i].endpoint : i \in 1..Len(pushSubscriptions)}

NotificationSteps ==
    \/ NotificationPersist \/ NotificationLog \/ NotificationLookup
    \/ \E o \in [StoredEndpoints -> Outcomes] : NotificationPush(o)
    \/ NotificationRespond

\* Comment bodies: none, blank, and two texts.
CommentContents == {"", " ", "ok", "no"}

Comments ==
    \E u \in Sessions, id \in NotifIds, c \in CommentContents : HttpComment(u, id, c)

CommentSteps == \E t \in Slots : CommentRead(t) \/ CommentWrite(t) \/ CommentRespond(t)

\* A PATCH body that carries the comments column.
CommentPatches == {[comments |-> <<>>]}

PatchComments ==
    \E u \in Sessions, id \in NotifIds, d \in CommentPatches :
        HttpPatchNotification(u, id, d)

\* The whole system.
Next ==
    \/ Connections
    \/ nreq < MaxReqs /\ (Joins \/ Sends \/ Mutations \/ Uploads \/ CreateRooms
                            \/ SweepQuery)
    \/ JoinSteps \/ SendSteps \/ MutationSteps \/ UploadSteps \/ RoomSteps
    \/ SweepSteps \/ Fails
    \/ now < MaxClock /\ Tick
    \/ nreq < MaxReqs /\ (Subscribes \/ PostNotifications \/ GetNotifications
                            \/ PatchNotifications)
    \/ NotificationSteps \/ NotificationStoreFail
    \/ nreq < MaxReqs /\ (CreateAnyRooms \/ DeleteRooms \/ Reinitialize)
    \/ DeleteRoomSteps
    \/ nreq < MaxReqs /\ (Comments \/ PatchComments)
    \/ CommentSteps

Spec == Init /\ [][Next]_vars

\* The notification requests alone, with and without VAPID keys configured.
\* The notification table alone: requests that create, list and patch
\* notifications while nobody has subscribed to pushes.
NextNotify ==
    \/ nreq < MaxReqs /\ (PostNotifications \/ GetNotifications
                            \/ PatchNotifications)
    \/ NotificationPersist \/ NotificationLog \/ NotificationLookup
    \/ NotificationRespond
    \/ NotificationStoreFail

\* Notifications may have been posted in an earlier run: none, or a general
\* one, one for CS and one for Math.
Posted ==
    createNotification(createNotification(createNotification(<<>>,
        [type |-> "general", content |-> "hi", postedBy |-> "dean",
         targetDepartmentName |-> NULL]),
        [type |-> "department", content |-> "hi", postedBy |-> "gov",
         targetDepartmentName |-> "CS"]),
        [type |-> "department", content |-> "hi", postedBy |-> "dean",
         targetDepartmentName |-> "Math"])

InitNotify ==
    /\ readyState = [c \in Conns |-> "NEW"]
    /\ userId = [c \in Conns |-> NULL]
    /\ roomId = [c \in Conns |-> NULL]
    /\ allClients = {}
    /\ rooms = EmptyMap
    /\ messages = <<>>
    /\ nextId = 0
    /\ roomTable = DefaultRooms
    /\ files = {}
    /\ now = 0
    /\ tasks = [t \in Slots |-> IdleTask]
    /\ sweep = [queue |-> <<>>, seen |-> <<>>, pc |-> "idle"]
    /\ sent = NoSend
    /\ done = IdleTask
    /\ httpRes = NoHttp
    /\ newMsgCount = [c \in Conns |-> [m \in {} |-> 0]]
    /\ inbox = [c \in Conns |-> <<>>]
    /\ reactsDone = [m \in {} |-> 0]
    /\ deleted = {}
    /\ nreq = 0
    /\ notifications \in {<<>>, Posted}
    /\ pushSubscriptions = <<>>
    /\ vapidKeys = FALSE
    /\ post = IdlePost
    /\ attempted = {}

SpecNotify == InitNotify /\ [][NextNotify]_vars

\* The store outlives the server: subscriptions may have been registered
\* in an earlier run, here none, or one endpoint by u2 and two by u3.
Registered ==
    <<[userId |-> "u2", endpoint |-> "e1"], [userId |-> "u3", endpoint |-> "e2"],
      [userId |-> "u3", endpoint |-> "e3"]>>

InitPush ==
    /\ readyState = [c \in Conns |-> "NEW"]
    /\ userId = [c \in Conns |-> NULL]
    /\ roomId = [c \in Conns |-> NULL]
    /\ allClients = {}
    /\ rooms = EmptyMap
    /\ messages = <<>>
    /\ nextId = 0
    /\ roomTable = DefaultRooms
    /\ files = {}
    /\ now = 0
    /\ tasks = [t \in Slots |-> IdleTask]
    /\ sweep = [queue |-> <<>>, seen |-> <<>>, pc |-> "idle"]
    /\ sent = NoSend
    /\ done = IdleTask
    /\ httpRes = NoHttp
    /\ newMsgCount = [c \in Conns |-> [m \in {} |-> 0]]
    /\ inbox = [c \in Conns |-> <<>>]
    /\ reactsDone = [m \in {} |-> 0]
    /\ deleted = {}
    /\ nreq = 0
    /\ notifications = <<>>
    /\ pushSubscriptions \in {<<>>, Registered}
    /\ vapidKeys \in BOOLEAN
    /\ post = IdlePost
    /\ attempted = {}

\* The push fan-out: subscribe and create-notification requests, with and
\* without VAPID keys configured.
NextPush ==
    \/ nreq < MaxReqs /\ (Subscribes \/ PostNotifications)
    \/ NotificationSteps
    \/ NotificationStoreFail

SpecPush == InitPush /\ [][NextPush]_vars

\* The behaviours of Spec in which only WebSocket frames arrive.
NextChat ==
    \/ Connections
    \/ nreq < MaxReqs /\ Joins
    \/ nreq < MaxReqs /\ Sends
    \/ nreq < MaxReqs /\ Mutations
    \/ JoinSteps \/ SendSteps \/ MutationSteps \/ Fails

SpecChat == Init /\ [][NextChat]_vars

\* The behaviours of SpecChat in which every frame arrives after the handler of
\* the frame before it has ended.
NextSeq ==
    \/ Connections
    \/ Busy = {} /\ nreq < MaxReqs /\ Joins
    \/ Busy = {} /\ nreq < MaxReqs /\ Sends
    \/ Busy = {} /\ nreq < MaxReqs /\ Mutations
    \/ JoinSteps \/ SendSteps \/ MutationSteps \/ Fails

SpecSeq == Init /\ [][NextSeq]_vars

\* Administrators create rooms while connections come, join and go.
NextRooms ==
    \/ Connections
    \/ nreq < MaxReqs /\ Joins
    \/ nreq < MaxReqs /\ CreateRooms
    \/ JoinSteps \/ RoomSteps \/ Fails

SpecRooms == Init /\ [][NextRooms]_vars

\* The administration of rooms: create and delete requests with any body,
\* and restarts of the server.
NextAdmin ==
    \/ nreq < MaxReqs /\ (CreateAnyRooms \/ DeleteRooms \/ Reinitialize)
    \/ RoomSteps \/ DeleteRoomSteps \/ Fails

SpecAdmin == Init /\ [][NextAdmin]_vars

\* Image uploads, the clock and the cleanup job, with edits and deletes of the
\* rows going on.
NextSweep ==
    \/ \E c \in Conns : Connect(c)
    \/ nreq < MaxReqs /\ Joins
    \/ nreq < MaxReqs /\ Uploads
    \/ nreq < MaxReqs /\ \E c \in Conns, m \in MsgIds : WsEdit(c, m, "bye")
    \/ nreq < MaxReqs /\ \E c \in Conns, m \in MsgIds : WsDelete(c, m)
    \/ nreq < MaxReqs /\ SweepQuery
    \/ JoinSteps \/ UploadSteps \/ SweepSteps \/ Fails
    \/ \E t \in Slots : EditPersist(t) \/ EditBroadcast(t)
    \/ \E t \in Slots : DeletePersist(t) \/ DeleteBroadcast(t)
    \/ now < MaxClock /\ Tick

SpecSweep == Init /\ [][NextSweep]_vars

\* Frames of any kind arrive on connections that come, join and go.
NextFrames ==
    \/ Connections
    \/ nreq < MaxReqs /\ Joins
    \/ nreq < MaxReqs /\ \E c \in Conns, data \in RawFrames : FrameArrives(c, data)
    \/ \E t \in Slots : OnMessage(t)
    \/ JoinSteps \/ SendSteps \/ Fails

SpecFrames == Init /\ [][NextFrames]_vars

\* Messages are sent to rooms while sockets of their members close.
NextFanout ==
    \/ \E c \in Conns : Connect(c)
    \/ \E c \in Conns : BeginClose(c)
    \/ \E c \in Conns : Close(c)
    \/ nreq < MaxReqs /\ Joins
    \/ nreq < MaxReqs /\ Sends
    \/ JoinSteps \/ SendSteps \/ Fails

SpecFanout == Init /\ [][NextFanout]_vars

\* Both connections are open and joined to the General room; nothing else has
\* happened.
InitOrder ==
    /\ readyState = [c \in Conns |-> "OPEN"]
    /\ userId = [c \in Conns |-> UserOf[c]]
    /\ roomId = [c \in Conns |-> "room1"]
    /\ allClients = Conns
    /\ rooms = [r \in {"room1"} |-> Conns]
    /\ messages = <<>>
    /\ nextId = 0
    /\ roomTable = DefaultRooms
    /\ files = {}
    /\ now = 0
    /\ tasks = [t \in Slots |-> IdleTask]
    /\ sweep = [queue |-> <<>>, seen |-> <<>>, pc |-> "idle"]
    /\ sent = NoSend
    /\ done = IdleTask
    /\ httpRes = NoHttp
    /\ newMsgCount = [c \in Conns |-> [m \in {} |-> 0]]
    /\ inbox = [c \in Conns |-> <<>>]
    /\ reactsDone = [m \in {} |-> 0]
    /\ deleted = {}
    /\ nreq = 0
    /\ PushOff

\* Sends to either room overlap while connections change room and close.
NextOrder ==
    \/ \E c \in Conns : Close(c)
    \/ nreq < MaxReqs /\ Joins
    \/ nreq < MaxReqs /\ Sends
    \/ JoinSteps \/ SendSteps \/ Fails

SpecOrder == InitOrder /\ [][NextOrder]_vars

\* The server starts on a message table that already holds one row less than
\* the history window, all in the General room.
StoredRow(i) ==
    [id |-> i, roomId |-> "room1", sender |-> "alice", content |-> "hello",
     imageUrl |-> NULL, imageExpiry |-> NoTime, edited |-> FALSE,
     reactions |-> EmptyMap, createdAt |-> 0]

InitHistory ==
    /\ readyState = [c \in Conns |-> "NEW"]
    /\ userId = [c \in Conns |-> NULL]
    /\ roomId = [c \in Conns |-> NULL]
    /\ allClients = {}
    /\ rooms = EmptyMap
    /\ messages = [i \in 1..(HistoryWindow - 1) |-> StoredRow(i)]
    /\ nextId = HistoryWindow - 1
    /\ roomTable = DefaultRooms
    /\ files = {}
    /\ now = 0
    /\ tasks = [t \in Slots |-> IdleTask]
    /\ sweep = [queue |-> <<>>, seen |-> <<>>, pc |-> "idle"]
    /\ sent = NoSend
    /\ done = IdleTask
    /\ httpRes = NoHttp
    /\ newMsgCount = [c \in Conns |-> [m \in {} |-> 0]]
    /\ inbox = [c \in Conns |-> <<>>]
    /\ reactsDone = [m \in {} |-> 0]
    /\ deleted = {}
    /\ nreq = 0
    /\ PushOff

NextHistory ==
    \/ Connect("c1")
    \/ Busy = {} /\ nreq < MaxReqs /\ \E r \in RoomIds : WsJoin("c1", r, "alice")
    \/ Busy = {} /\ nreq < MaxReqs
          /\ \E r \in RoomIds : WsMessage("c1", r, "alice", "hello", NULL)
    \/ JoinSteps
    \/ \E t \in Slots : nextId < HistoryWindow - 1 + MaxMsgs /\ MessagePersist(t)
    \/ \E t \in Slots : MessageBroadcast(t)
    \/ now < MaxClock /\ Tick

SpecHistory == InitHistory /\ [][NextHistory]_vars

\* The server starts on a message table that holds one message of the General
\* room; frames that edit, delete and react to messages arrive while
\* connections come, join and go.
InitReact ==
    /\ readyState = [c \in Conns |-> "NEW"]
    /\ userId = [c \in Conns |-> NULL]
    /\ roomId = [c \in Conns |-> NULL]
    /\ allClients = {}
    /\ rooms = EmptyMap
    /\ messages = <<StoredRow(1)>>
    /\ nextId = 1
    /\ roomTable = DefaultRooms
    /\ files = {}
    /\ now = 0
    /\ tasks = [t \in Slots |-> IdleTask]
    /\ sweep = [queue |-> <<>>, seen |-> <<>>, pc |-> "idle"]
    /\ sent = NoSend
    /\ done = IdleTask
    /\ httpRes = NoHttp
    /\ newMsgCount = [c \in Conns |-> [m \in {} |-> 0]]
    /\ inbox = [c \in Conns |-> <<>>]
    /\ reactsDone = [m \in {} |-> 0]
    /\ deleted = {}
    /\ nreq = 0
    /\ PushOff

NextReact ==
    \/ Connections
    \/ nreq < MaxReqs /\ Joins
    \/ nreq < MaxReqs /\ Mutations
    \/ JoinSteps \/ MutationSteps \/ Fails

SpecReact == InitReact /\ [][NextReact]_vars

\* Comments on notifications: comment and PATCH requests on a notification
\* table that is empty or holds the notifications of an earlier run.
NextComments ==
    \/ nreq < MaxReqs /\ (Comments \/ PatchComments)
    \/ CommentSteps \/ Fails

SpecComments == InitNotify /\ [][NextComments]_vars

\* ================================================================ claims
Members(r) == IF r \in DOMAIN rooms THEN rooms[r] ELSE {}

NewMessageSent == done.kind = "message" /\ done.phase = "resume"

\* C1: the new_message frame of a message for room R goes to every open handle
\* in R's set at the moment of the broadcast and to no handle outside R's set,
\* whatever other room that handle is in.
C1_RoomIsolation ==
    NewMessageSent =>
        \A c \in Conns :
            sent[c] = IF c \in Members(done.f.roomId) /\ readyState[c] = "OPEN"
                      THEN <<[type |-> "new_message", message |-> done.res[1]]>>
                      ELSE <<>>

C1_Witness ==
    /\ NewMessageSent
    /\ \E c, d \in Conns :
         /\ c \in Members(done.f.roomId) /\ sent[c] # <<>>
         /\ readyState[d] = "OPEN" /\ d \notin Members(done.f.roomId)
         /\ \E r \in DOMAIN rooms : d \in rooms[r]
         /\ sent[d] = <<>>

\* C2 as claimed: an edit whose requester is not the sender of the row leaves
\* the table as it is and broadcasts no message_edited frame.
Requester(t) == userId[tasks[t].conn]

NotOwner(t) ==
    /\ Requester(t) # NULL
    /\ getMessage(messages, tasks[t].f.messageId) # <<>>
    /\ getMessage(messages, tasks[t].f.messageId)[1].sender # Requester(t)

C2_EditNeedsOwner ==
    [][\A t \in Slots :
         (tasks[t].kind = "edit" /\ NotOwner(t) /\ tasks'[t] # tasks[t])
            => (messages' = messages /\ sent' = NoSend)]_vars

\* C3 as claimed: a delete whose requester is not the sender of the row leaves
\* the row stored and broadcasts no message_deleted frame.
C3_DeleteNeedsOwner ==
    [][\A t \in Slots :
         (tasks[t].kind = "delete" /\ NotOwner(t) /\ tasks'[t] # tasks[t])
            => (messages' = messages /\ sent' = NoSend)]_vars

\* C4: the history frame of a join lists rows of the joined room only, each
\* once, oldest first, at most HistoryWindow of them: all of the room's rows
\* when there are no more than that, and otherwise HistoryWindow rows none of
\* which is older than a row left out.
RoomRows(r) == {messages[i] : i \in {j \in 1..Len(messages) : messages[j].roomId = r}}

Min(a, b) == IF a < b THEN a ELSE b

C4_HistoryWindow ==
    (done.kind = "join" /\ done.phase = "resume" /\ sent[done.conn] # <<>>) =>
        LET h == sent[done.conn][1].messages
            listed == {h[i] : i \in 1..Len(h)}
        IN  /\ sent[done.conn][1].type = "history"
            /\ Len(sent[done.conn]) = 1
            /\ Len(h) <= HistoryWindow
            /\ listed \subseteq RoomRows(done.f.roomId)
            /\ Cardinality(listed) = Len(h)
            /\ Len(h) = Min(HistoryWindow, Cardinality(RoomRows(done.f.roomId)))
            /\ \A i, j \in 1..Len(h) : i < j => h[i].createdAt <= h[j].createdAt
            /\ \A out \in RoomRows(done.f.roomId) \ listed :
                  \A i \in 1..Len(h) : out.createdAt <= h[i].createdAt

C4_Witness ==
    /\ done.kind = "join" /\ done.phase = "resume" /\ sent[done.conn] # <<>>
    /\ Cardinality(RoomRows(done.f.roomId)) > HistoryWindow
    /\ Len(sent[done.conn][1].messages) = HistoryWindow
    /\ sent[done.conn][1].messages[1].createdAt
          < sent[done.conn][1].messages[HistoryWindow].createdAt

\* C5: every open handle in the room's set gets exactly one new_message frame
\* for a persisted message, never a second one later, and the frame carries the
\* frame's room, sender and content with the generated id, the creation time,
\* no reactions and edited = false.
C5_ExactlyOnce ==
    /\ \A c \in Conns : \A m \in DOMAIN newMsgCount[c] : newMsgCount[c][m] <= 1
    /\ NewMessageSent =>
         \A c \in Members(done.f.roomId) :
            readyState[c] = "OPEN" =>
               /\ Len(sent[c]) = 1
               /\ sent[c][1].type = "new_message"
               /\ sent[c][1].message.content = done.f.content
               /\ sent[c][1].message.sender = done.f.sender
               /\ sent[c][1].message.roomId = done.f.roomId
               /\ sent[c][1].message.id \in 1..nextId
               /\ sent[c][1].message.createdAt \in 0..now
               /\ sent[c][1].message.reactions = EmptyMap
               /\ sent[c][1].message.edited = FALSE
               /\ newMsgCount[c][sent[c][1].message.id] = 1

C5_Witness ==
    /\ NewMessageSent
    /\ \E c \in Conns : c # done.conn /\ Len(sent[c]) = 1

\* C6: a react whose message id matches no row ends at the lookup: the table
\* and the registry stay as they are, nothing is sent, the handle stays open
\* and the handler is over.
C6_ReactMissing ==
    [][\A t \in Slots :
         (/\ tasks[t].kind = "react" /\ tasks[t].phase = "db"
          /\ tasks[t].f.messageId \notin Ids(messages)
          /\ tasks'[t] # tasks[t])
            => /\ messages' = messages
               /\ sent' = NoSend
               /\ rooms' = rooms
               /\ readyState' = readyState
               /\ tasks'[t].kind = "idle"]_vars

C6_Witness ==
    /\ done.kind = "react" /\ done.phase = "db"
    /\ done.f.messageId \notin Ids(messages)
    /\ messages # <<>>
    /\ readyState[done.conn] = "OPEN"
    /\ \E r \in DOMAIN rooms : rooms[r] # {}

\* C7: when react handlers run one after another, the stored count of every
\* reaction key of a row is the number of react handlers completed for it.
Stored(row, k) == IF k \in DOMAIN row.reactions THEN row.reactions[k] ELSE 0

Completed(id, k) ==
    IF <<id, k>> \in DOMAIN reactsDone THEN reactsDone[<<id, k>>] ELSE 0

C7_RawIncrements ==
    Busy = {} =>
        \A i \in 1..Len(messages) : \A k \in ReactionKeys :
            Stored(messages[i], k) = Completed(messages[i].id, k)

C7_Witness ==
    /\ Busy = {}
    /\ \E i \in 1..Len(messages) :
         Stored(messages[i], "heart") = 2 /\ Completed(messages[i].id, "heart") = 2

\* C8: a history frame names no row that a delete handler had removed before
\* the join frame arrived.
HistorySent == done.kind = "join" /\ done.phase = "resume"

C8_DeletedStaysOut ==
    HistorySent =>
        \A c \in Conns : \A i \in 1..Len(sent[c]) :
            Ids(sent[c][i].messages) \cap {d.id : d \in done.hist} = {}

C8_Witness ==
    /\ HistorySent
    /\ sent[done.conn] # <<>>
    /\ \E d \in done.hist : d.roomId = done.f.roomId

\* C9: when a create-room request is answered with the room, every open handle
\* has been sent one new_room frame with that room, joined or not, and the room
\* is stored.
C9_NewRoomToAll ==
    (done.kind = "create_room" /\ httpRes.status = 200) =>
        /\ \E i \in 1..Len(roomTable) : roomTable[i] = httpRes.body[1]
        /\ \A c \in Conns :
             sent[c] = IF readyState[c] = "OPEN"
                       THEN <<[type |-> "new_room", room |-> httpRes.body[1]]>>
                       ELSE <<>>

C9_Witness ==
    /\ done.kind = "create_room" /\ httpRes.status = 200
    /\ \E c, d \in Conns :
         /\ readyState[c] = "OPEN" /\ roomId[c] = NULL /\ sent[c] # <<>>
         /\ readyState[d] = "OPEN" /\ roomId[d] # NULL /\ sent[d] # <<>>

\* C10 as claimed: when a run of the cleanup job ends, every row it selected
\* that is still stored has both image fields cleared, and the job has sent
\* nothing.
C10_SweepClears ==
    (done.kind = "sweep") =>
        /\ sent = NoSend
        /\ \A i \in 1..Len(sweep.seen) :
             LET cur == getMessage(messages, sweep.seen[i].id)
             IN  cur # <<>> =>
                    cur[1].imageUrl = NULL /\ cur[1].imageExpiry = NoTime

\* C11: a closed handle is in neither the global set nor the set of its current
\* room (ws.roomId) from the close step on, and no step after the close writes
\* a frame to it.
C11_ClosedIsGone ==
    \A c \in Conns :
        readyState[c] = "CLOSED" =>
            /\ c \notin allClients
            /\ c \notin Members(roomId[c])
            /\ sent[c] = <<>>

C11_Witness ==
    /\ done.kind \in {"message", "edit", "delete", "react"}
    /\ \E c, d \in Conns :
         /\ readyState[c] = "CLOSED" /\ roomId[c] # NULL
         /\ d \in Members(roomId[c]) /\ sent[d] # <<>>

\* C12: the handler of a frame that is not JSON, or whose type is none of the
\* five known ones, leaves the tables, the registry and every handle as they
\* are, sends nothing and ends; every other handler in flight is untouched.
IsBad(data) == ~data.json \/ data.type \notin KnownTypes

C12_BadFrameIgnored ==
    [][\A t \in Slots :
         (/\ tasks[t].kind = "frame" /\ IsBad(tasks[t].f)
          /\ tasks'[t] # tasks[t])
            => /\ UNCHANGED <<messages, nextId, roomTable, files>>
               /\ UNCHANGED <<readyState, userId, roomId, allClients, rooms>>
               /\ sent' = NoSend
               /\ tasks' = [tasks EXCEPT ![t] = IdleTask]]_vars

C12_Witness ==
    /\ done.kind = "frame" /\ IsBad(done.f)
    /\ done.f.json /\ done.f.type = "ping"
    /\ readyState[done.conn] = "OPEN"
    /\ done.conn \in Members(roomId[done.conn])
    /\ messages # <<>>
    /\ \E t \in Slots : tasks[t].kind = "message"

\* C13 as claimed: an edit or delete whose message id matched no row when its
\* store call ran leaves the table as it is and broadcasts nothing.
NoSuchRow(t) ==
    IF tasks[t].phase = "db"
    THEN tasks[t].f.messageId \notin Ids(messages)
    ELSE tasks[t].res = <<>>

C13_NotFoundIsSilent ==
    [][\A t \in Slots :
         (/\ tasks[t].kind \in {"edit", "delete"} /\ NoSuchRow(t)
          /\ tasks'[t] # tasks[t])
            => (messages' = messages /\ sent' = NoSend)]_vars

\* C14: when the store call of a message, edit, delete or react handler
\* rejects, the step sends nothing, writes nothing, leaves every handle open
\* and registered as it was, ends that handler and touches no other handler.
C14_StoreFailureIsolated ==
    [][\A t \in Slots :
         (/\ tasks[t].kind \in {"message", "edit", "delete", "react"}
          /\ tasks'[t] = IdleTask
          /\ done' = [tasks[t] EXCEPT !.phase = "failed"])
            => /\ sent' = NoSend
               /\ UNCHANGED <<messages, nextId>>
               /\ UNCHANGED <<readyState, userId, roomId, allClients, rooms>>
               /\ UNCHANGED <<newMsgCount, inbox, reactsDone, deleted>>
               /\ tasks' = [tasks EXCEPT ![t] = IdleTask]]_vars

C14_Witness ==
    /\ done.phase = "failed" /\ done.kind = "message"
    /\ readyState[done.conn] = "OPEN"
    /\ done.conn \in Members(done.f.roomId)
    /\ \E d \in Conns \ {done.conn} :
         d \in Members(done.f.roomId) /\ readyState[d] = "OPEN"

\* C15: the close of a connection leaves its message handlers in flight as
\* they are, and when such a handler broadcasts after the close, the row has
\* been inserted and every open member of the room gets the new_message frame;
\* the closed sender gets nothing.
SenderClosed(t) == readyState[tasks[t].conn] = "CLOSED"

C15_CloseDuringPersist ==
    [][\A t \in Slots :
         tasks[t].kind = "message" =>
            /\ (~SenderClosed(t) /\ readyState'[tasks[t].conn] = "CLOSED")
                  => tasks'[t] = tasks[t]
            /\ (SenderClosed(t) /\ tasks[t].phase = "resume" /\ tasks'[t] # tasks[t])
                  => /\ tasks[t].res[1].id \in 1..nextId
                     /\ sent'[tasks[t].conn] = <<>>
                     /\ \A d \in Members(tasks[t].f.roomId) :
                          readyState[d] = "OPEN" =>
                             sent'[d] = <<[type |-> "new_message",
                                           message |-> tasks[t].res[1]]>>]_vars

C15_Witness ==
    /\ NewMessageSent
    /\ readyState[done.conn] = "CLOSED"
    /\ roomId[done.conn] = done.f.roomId
    /\ done.res[1] \in {messages[i] : i \in 1..Len(messages)}
    /\ \E d \in Members(done.f.roomId) : sent[d] # <<>>

\* C17: a room broadcast writes the frame once to every open handle of the
\* room's set and to none of the set's handles that are not open, whatever the
\* set holds besides.
Open(r) == {c \in Members(r) : readyState[c] = "OPEN"}

C17_BestEffortFanout ==
    NewMessageSent =>
        /\ \A c \in Open(done.f.roomId) :
              Len(sent[c]) = 1 /\ sent[c][1].message = done.res[1]
        /\ \A c \in Members(done.f.roomId) \ Open(done.f.roomId) : sent[c] = <<>>

C17_Witness ==
    /\ NewMessageSent
    /\ \E c \in Members(done.f.roomId) : readyState[c] = "CLOSING"
    /\ \E c \in Open(done.f.roomId) : sent[c] # <<>>

\* C16: a persist completes for the server when the await of its handler
\* resumes.  In that step the new_message frame is written behind everything
\* written before to every open handle of the room's set, so frames go out in
\* the order of these completions, and two handles that both got the frames of
\* two messages got them in the same order.
Pos(seq, m) == CHOOSE i \in 1..Len(seq) : seq[i] = m

Got(c) == {inbox[c][i] : i \in 1..Len(inbox[c])}

Recipient ==
    {u \in getUser(Head(post.queue).userId) : u.username # post.user.username}

\* The request in flight moves in this step, after its notification was
\* created.
AfterCreate == post.n # NoNotification /\ post' # post

StoreRejected == httpRes'.status = 500 /\ httpRes'.body = <<StoreError>>

Listed(n, body) == \E j \in 1..Len(body) : body[j] = n

GeneralRooms == {i \in 1..Len(roomTable) : roomTable[i].type = "general"}

\* C20: after initialization, and after any create-room and delete-room
\* requests of an administrator and any restarts, the room table holds
\* exactly one room of type "general".
C20_SingleGeneralRoom == Cardinality(GeneralRooms) = 1

\* ---- C21
DefaultRoom(r) == r.type \in {"general", "department"}

RowsOf(tbl) == {tbl[i] : i \in 1..Len(tbl)}

EditedFrame(f) ==
    [type |-> "message_edited", messageId |-> f.messageId, content |-> f.content]

\* C22: the store call of an edit sets content and edited of the row with the
\* given id and changes nothing else, and the message_edited frame of an edit
\* that found its row goes to every open member of the room that row belongs
\* to and to no other handle.
C22_EditEffectAndAudience ==
    [][/\ \A t \in Slots :
             tasks[t].kind = "edit" /\ tasks[t].phase = "db"
             /\ tasks'[t].phase = "resume"
             => messages' =
                  [i \in 1..Len(messages) |->
                      IF messages[i].id = tasks[t].f.messageId
                      THEN [messages[i] EXCEPT !.content = tasks[t].f.content,
                                               !.edited = TRUE]
                      ELSE messages[i]]
       /\ done'.kind = "edit" /\ done'.phase = "resume" /\ done'.res # <<>>
             => \A c \in Conns :
                   sent'[c] = IF c \in Open(done'.res[1].roomId)
                              THEN <<EditedFrame(done'.f)>> ELSE <<>>]_vars

\* ---- C23
CountOf(row, k) == IF k \in DOMAIN row.reactions THEN row.reactions[k] ELSE 0

ReactWrites(id) ==
    \E t \in Slots : /\ tasks[t].kind = "react" /\ tasks[t].phase = "db2"
                     /\ tasks[t].f.messageId = id
                     /\ tasks'[t].phase = "resume"

\* C23: every reaction count of a stored message is a non-negative integer, a
\* new row starts with an empty reaction map, and a count of a stored row
\* changes only in the store write of a react operation on that row and then
\* by exactly one.
C23_ReactionCounters ==
    [][/\ \A i \in 1..Len(messages') :
             \A k \in DOMAIN messages'[i].reactions :
                 messages'[i].reactions[k] \in Nat
       /\ \A id \in Ids(messages') \ Ids(messages) :
             getMessage(messages', id)[1].reactions = EmptyMap
       /\ \A id \in Ids(messages) \cap Ids(messages') : \A k \in ReactionKeys :
             LET a == CountOf(getMessage(messages, id)[1], k)
                 b == CountOf(getMessage(messages', id)[1], k)
             IN a # b => ReactWrites(id) /\ (b = a + 1 \/ b = a - 1)]_vars

\* ---- C24
IsPrefix(a, b) == Len(a) <= Len(b) /\ SubSeq(b, 1, Len(a)) = a

\* C24: whatever request is served, the comment list of every stored
\* notification afterwards starts with the list it had before: comments are
\* only added at the end, none is removed, replaced or reordered.
C24_CommentsAppendOnly ==
    [][\A i \in 1..Len(notifications) :
          LET after == getNotification(notifications', notifications[i].id)
          IN after # <<>>
             => IsPrefix(notifications[i].comments, after[1].comments)]_vars

\* ---- C25
\* The react handlers for key k of message id whose store write has executed.
Written(id, k) ==
    Completed(id, k)
      + Cardinality({t \in Slots : /\ tasks[t].kind = "react"
                                   /\ tasks[t].phase = "resume"
                                   /\ tasks[t].f.messageId = id
                                   /\ ReactionKey(tasks[t].f) = k})

\* C25: react handlers may overlap, and the stored count of a key of a row is
\* never more than the number of react writes executed for that row and key;
\* when every react written to the row so far used the same key, and there is
\* at least one, the count of that key is at least one.
C25_LossyReactions ==
    \A i \in 1..Len(messages) : \A k \in ReactionKeys :
        /\ Stored(messages[i], k) <= Written(messages[i].id, k)
        /\ (/\ Written(messages[i].id, k) >= 1
            /\ \A j \in ReactionKeys \ {k} : Written(messages[i].id, j) = 0)
              => Stored(messages[i], k) >= 1

\* Two reacts with the same key on one row have completed, they overlapped,
\* and one increment is lost.
C25_Witness ==
    /\ Busy = {}
    /\ \E i \in 1..Len(messages) :
         /\ Completed(messages[i].id, "like") = 2
         /\ Completed(messages[i].id, "heart") = 0
         /\ Stored(messages[i], "like") = 1

\* ---- C26
RoomsOf(c) == {r \in DOMAIN rooms : c \in rooms[r]}

\* C26: every handle is in the set of at most one room, the room of its
\* latest join, and the handle of a socket whose close event has fired is in
\* no room's set.
C26_SingleMembership ==
    \A c \in Conns :
        /\ RoomsOf(c) \subseteq {roomId[c]}
        /\ readyState[c] = "CLOSED" => RoomsOf(c) = {}

\* ---- C27
\* The join handlers of handle c for room r that have not sent their history.
Joining(c, r) ==
    {t \in Slots : /\ tasks[t].kind = "join" /\ tasks[t].conn = c
                   /\ tasks[t].f.roomId = r}

\* The messages whose new_message broadcast is still to come.
ToBroadcast ==
    {tasks[t].res[1].id :
        t \in {u \in Slots : tasks[u].kind = "message" /\ tasks[u].phase = "resume"}}

\* C27: no new_message frame of a room reaches a handle whose join of that
\* room has not sent its history yet, and a history frame holds every stored
\* message of the room whose new_message broadcast is not still to come.
C27_NoGapAtJoin ==
    [][/\ \A c \in Conns : \A i \in 1..Len(sent'[c]) :
             sent'[c][i].type = "new_message"
                => Joining(c, sent'[c][i].message.roomId) = {}
       /\ \A t \in Slots :
             (/\ tasks[t].kind = "join" /\ tasks[t].phase = "resume"
              /\ tasks'[t].kind = "idle" /\ sent'[tasks[t].conn] # <<>>)
                => \A i \in 1..Len(messages) :
                      messages[i].roomId = tasks[t].f.roomId
                         => \/ messages[i].id
                                 \in Ids(sent'[tasks[t].conn][1].messages)
                            \/ messages[i].id \in ToBroadcast]_vars

\* ---- C28
\* The ids whose message_deleted broadcast has run.
DeletedIds == {d.id : d \in deleted}

\* C28: once the message_deleted broadcast of a message has run, no
\* message_edited and no message_reacted frame for that message is sent to any
\* handle.
C28_NothingAfterDelete ==
    [][\A c \in Conns : \A i \in 1..Len(sent'[c]) :
          sent'[c][i].type \in {"message_edited", "message_reacted"}
             => sent'[c][i].messageId \notin DeletedIds]_vars

\* ---- C29
\* The store call of the message handler in slot t executes in this step.
Persists(t) ==
    /\ tasks[t].kind = "message" /\ tasks[t].phase = "db"
    /\ tasks'[t].phase = "resume"

\* C29 as stated: the sender stored with a message is the identity its
\* connection declared when it joined, and a connection that has not joined
\* stores no message.
C29_SenderIsJoinIdentity ==
    [][\A t \in Slots :
          Persists(t) =>
             /\ userId[tasks[t].conn] # NULL
             /\ messages'[Len(messages')].sender = userId[tasks[t].conn]]_vars

\* C29, amended: the sender stored with a message and sent in its new_message
\* frame is the sender field of the message frame, whatever the connection
\* declared when it joined and whether it joined at all.
C29_SenderFromFrame ==
    [][/\ \A t \in Slots :
             Persists(t) =>
                /\ Len(messages') = Len(messages) + 1
                /\ messages'[Len(messages')].sender = tasks[t].f.sender
       /\ done'.kind = "message" /\ done'.phase = "resume"
             => \A c \in Conns : \A i \in 1..Len(sent'[c]) :
                   sent'[c][i].message.sender = done'.f.sender]_vars

\* A joined connection has just had a message broadcast under a name that
\* is not the one it joined with, and a member of the room got the frame.
C29_Witness ==
    /\ NewMessageSent
    /\ userId[done.conn] # NULL
    /\ done.res[1].sender # userId[done.conn]
    /\ \E i \in 1..Len(messages) : messages[i] = done.res[1]
    /\ \E c \in Conns : Len(sent[c]) = 1 /\ sent[c][1].message.sender = done.f.sender

\* ---- C30
\* C30: a message frame is persisted, and its new_message frame is sent, only
\* when the sending connection is joined to the room the frame names and that
\* room is a stored room.
C30_SendNeedsMembership ==
    [][/\ \A t \in Slots :
             Persists(t) =>
                /\ roomId[tasks[t].conn] = tasks[t].f.roomId
                /\ tasks[t].conn \in Members(tasks[t].f.roomId)
                /\ getRoom(roomTable, tasks[t].f.roomId) # <<>>
       /\ (/\ done'.kind = "message" /\ done'.phase = "resume"
           /\ \E c \in Conns : sent'[c] # <<>>)
             => roomId[done'.conn] = done'.f.roomId]_vars
====
